---------------------------- MODULE Spec2Model ----------------------------
(***************************************************************************)
(* A model of the xreact project generator: the orchestrator               *)
(* (generateProject), the setup stages (plugins/*.ts), the app-name        *)
(* validator of the prompt collector and the postinstall hook.             *)
(*                                                                         *)
(* A project directory is a record                                         *)
(*   files : path -> content, a content being a sequence of lines          *)
(*   dirs  : the set of directories under the project                      *)
(*   pkg   : the parsed package.json                                       *)
(*   git, husky, execBits, commitTemplate : what the git/husky commands    *)
(*           of the Husky stage leave behind                               *)
(* and every stage is a function from a project to a project (or throws).  *)
(***************************************************************************)
EXTENDS Integers, Sequences, FiniteSets, TLC

VARIABLES
    choices,      \* the features the user selected (ProjectConfig of the spec)
    pc,           \* position of generateProject
    proj,         \* the project directory on disk
    invoked,      \* the stage calls so far, in call order, and whether each threw
    pkgRead,      \* package.json as the last read-merge-write step read it
    lastTS,       \* the useTypeScript argument of the last stage call
    input,        \* the answer typed at the app-name prompt
    entryKind,    \* what exists at the path named by the answer
    verdict,      \* what validate returned for it
    env,          \* process.env as the postinstall hook sees it
    proc,         \* the hook's process: isTTY of stdin and stdout, __dirname
    hook,         \* what the postinstall hook has done
    cmds,         \* the external commands the last stage call ran, each with
                  \* whether it exited with status 0
    main          \* the running command (main of index.ts, run of an add-on):
                  \* prompts answered so far, exit code

vars == <<choices, pc, proj, invoked, pkgRead, lastTS,
          input, entryKind, verdict, env, proc, hook, main, cmds>>

genVars  == <<choices, pc, proj, invoked, pkgRead, lastTS, main, cmds>>
nameVars == <<input, entryKind, verdict>>
hookVars == <<env, proc, hook>>

-----------------------------------------------------------------------------
(* Bounds *)

MaxCalls == 2       \* stage calls made on one project in SpecStages
MaxLen   == 3       \* length of an answer typed at the app-name prompt
MaxTyped == 2       \* the same, for the answers typed in a run of main
MaxRuns  == 2       \* add-on commands run one after the other in one directory

-----------------------------------------------------------------------------
(* Maps (JSON objects) and the project record *)

EmptyMap == [k \in {} |-> ""]

\* { ...existing, ...own } with the keys of own written last
SpreadMergeExistingWins(existing, own) ==
    [k \in (DOMAIN existing) \cup (DOMAIN own) |->
        IF k \in DOMAIN existing THEN existing[k] ELSE own[k]]

SpreadMergeOwnOnly(existing, own) == own

SpreadMerge(existing, own) ==
    [k \in (DOMAIN existing) \cup (DOMAIN own) |->
        IF k \in DOMAIN own THEN own[k] ELSE existing[k]]

\* fs.writeFile(path, content): creates or overwrites
WriteFile(p, path, content) ==
    [p EXCEPT !.files =
        [f \in (DOMAIN p.files) \cup {path} |->
            IF f = path THEN content ELSE p.files[f]]]

\* a removal that is left out
RemoveNothing(p, path) == p

\* if (await fs.pathExists(path)) await fs.remove(path)
RemoveIfExists(p, path) ==
    [p EXCEPT !.files = [f \in (DOMAIN p.files) \ {path} |-> p.files[f]]]

\* fs.ensureDir(dir): creates the directory and its missing parents
EnsureDirs(p, ds) == [p EXCEPT !.dirs = p.dirs \cup ds]

\* npm install <packages>: the package manager records them in package.json
NpmInstall(p, packages) ==
    [p EXCEPT !.pkg.deps = p.pkg.deps \cup packages]

\* an external command (execSync) and whether it exited with status 0
Command(cmd, ok) == [cmd |-> cmd, ok |-> ok]

Returned(p, read) == [proj |-> p, threw |-> FALSE, read |-> read]

\* a failure that removes what the run has written so far
ThrownWithRollback(p, read) ==
    [proj |-> [files |-> <<>>, dirs |-> {}, pkg |-> p.pkg, git |-> p.git,
               husky |-> p.husky, execBits |-> p.execBits,
               commitTemplate |-> p.commitTemplate],
     threw |-> TRUE, read |-> read]

Thrown(p, read)   == [proj |-> p, threw |-> TRUE,  read |-> read]

AppFileName(useTypeScript) == IF useTypeScript THEN "App.tsx" ELSE "App.jsx"
AppFilePath(useTypeScript) == IF useTypeScript THEN "src/App.tsx" ELSE "src/App.jsx"
ViteConfigPath(useTypeScript) ==
    IF useTypeScript THEN "vite.config.ts" ELSE "vite.config.js"

-----------------------------------------------------------------------------
(* File contents, one string per line that a claim or a later stage reads *)

ImportRouterLine  == "import { Router } from './navigation';"
ReturnRouterLine  == "return <Router />;"
ImportAppCssLine  == "import './App.css'"
TailwindPluginLine == "tailwindcss(),"

\* the App component `npm create vite` generates
ViteAppContent ==
    << ImportAppCssLine, "function App() {", "<h1>Vite + React</h1>",
       "export default App" >>

TailwindMarkup(appFileName) ==
    IF appFileName = "App.tsx"
    THEN "<div className=\"min-h-screen bg-slate-900 ...\"> src/App.tsx"
    ELSE "<div className=\"min-h-screen bg-slate-900 ...\"> src/App.jsx"

TailwindAppContent(appFileName) ==
    << "function App() {", TailwindMarkup(appFileName), "export default App" >>

RouterAppContent ==
    << ImportRouterLine, "function App() {", ReturnRouterLine,
       "export default App;" >>

\* the vite.config `npm create vite` generates
ScaffoldViteConfigContent ==
    << "import react from '@vitejs/plugin-react-swc'", "plugins: [react()]," >>

BasicViteConfigContent ==
    << "import react from '@vitejs/plugin-react-swc'", "plugins: [react()],",
       "server: { port: 3000, open: true }",
       "build: { outDir: 'dist', sourcemap: true }" >>

TailwindViteConfigContent ==
    << "import react from '@vitejs/plugin-react-swc'",
       "import tailwindcss from '@tailwindcss/vite'",
       "react(),", TailwindPluginLine >>

Contains(content, line) == \E i \in 1..Len(content) : content[i] = line

-----------------------------------------------------------------------------
(* package.json *)

ViteScripts ==
    [k \in {"dev", "build", "preview", "lint"} |->
        CASE k = "dev"     -> "vite"
          [] k = "build"   -> "tsc && vite build"
          [] k = "preview" -> "vite preview"
          [] k = "lint"    -> "eslint . --ext ts,tsx --report-unused-disable-directives --max-warnings 0"]

PrettierScripts ==
    [k \in {"format", "format:check"} |->
        CASE k = "format"       -> "prettier --write \"src/**/*.{js,jsx,ts,tsx,json,css,md}\""
          [] k = "format:check" -> "prettier --check \"src/**/*.{js,jsx,ts,tsx,json,css,md}\""]

EslintScripts ==
    [k \in {"lint", "lint:fix"} |->
        CASE k = "lint"     -> "eslint . --ext ts,tsx --report-unused-disable-directives --max-warnings 0"
          [] k = "lint:fix" -> "eslint . --ext ts,tsx --fix"]

HuskyScripts(useTypeScript) ==
    [k \in {"prepare", "lint", "lint:fix", "format", "format:check"} |->
        CASE k = "prepare"      -> "husky install"
          [] k = "lint"         -> IF useTypeScript THEN "eslint src/**/*.{ts,tsx}"
                                                    ELSE "eslint src/**/*.{js,jsx}"
          [] k = "lint:fix"     -> IF useTypeScript THEN "eslint src/**/*.{ts,tsx} --fix"
                                                    ELSE "eslint src/**/*.{js,jsx} --fix"
          [] k = "format"       -> "prettier --write src/**/*.{ts,tsx,js,jsx,json,css,md}"
          [] k = "format:check" -> "prettier --check src/**/*.{ts,tsx,js,jsx,json,css,md}"]

HuskyLintStaged(useTypeScript) ==
    LET src == IF useTypeScript THEN "src/**/*.{ts,tsx}" ELSE "src/**/*.{js,jsx}"
    IN  [k \in {src, "src/**/*.{json,css,md}"} |->
            IF k = src THEN "eslint --fix, prettier --write"
                       ELSE "prettier --write"]

\* the scripts `npm create vite` puts in the package.json of the template
ScaffoldScripts(useTypeScript) ==
    [k \in {"dev", "build", "lint", "preview"} |->
        CASE k = "dev"     -> "vite"
          [] k = "build"   -> IF useTypeScript THEN "tsc -b && vite build"
                                               ELSE "vite build"
          [] k = "lint"    -> "eslint ."
          [] k = "preview" -> "vite preview"]

\* packageJson.scripts = { ...packageJson.scripts, <own> }; the other
\* top-level fields of the parsed object are written back as they were read
WithScripts(pkg, own) ==
    [pkg EXCEPT !.scripts = SpreadMerge(pkg.scripts, own)]


WriteFiles(p, written) ==
    [p EXCEPT !.files =
        [f \in (DOMAIN p.files) \cup (DOMAIN written) |->
            IF f \in DOMAIN written THEN written[f] ELSE p.files[f]]]

-----------------------------------------------------------------------------
(* plugins/vite.ts: the base scaffold *)

NoProject ==
    [ files |-> [f \in {} |-> <<>>], dirs |-> {},
      pkg |-> [scripts |-> EmptyMap, lintStaged |-> EmptyMap, deps |-> {},
               other |-> EmptyMap],
      git |-> FALSE, husky |-> FALSE, execBits |-> {},
      commitTemplate |-> FALSE ]

\* npm create vite@latest <appName> -- --template react-swc(-ts)
scaffoldViteProject(useTypeScript) ==
    LET jsx == IF useTypeScript THEN "tsx" ELSE "jsx"
        cfg == ViteConfigPath(useTypeScript)
        app == AppFilePath(useTypeScript)
        common == {cfg, app, "src/App.css", "src/index.css", "src/main." \o jsx}
        paths == IF useTypeScript THEN common \cup {"tsconfig.json"} ELSE common
    IN  [ NoProject EXCEPT
            !.files = [f \in paths |->
                         CASE f = cfg -> ScaffoldViteConfigContent
                           [] f = app -> ViteAppContent
                           [] OTHER   -> << "vite template: " \o f >>],
            !.dirs  = {"src", "public"},
            !.pkg   = [ scripts    |-> ScaffoldScripts(useTypeScript),
                        lintStaged |-> EmptyMap,
                        deps       |-> {"react", "react-dom", "vite"},
                        other      |-> [k \in {"name", "type"} |->
                                          IF k = "name" THEN "<appName>"
                                                        ELSE "module"] ] ]

configureVite(p, useTypeScript) ==
    WriteFile(p, ViteConfigPath(useTypeScript), BasicViteConfigContent)

updatePackageScripts(p) ==
    [p EXCEPT !.pkg = WithScripts(p.pkg, ViteScripts)]

setupVite(p, useTypeScript, scaffoldOk) ==
    IF ~scaffoldOk THEN Thrown(p, p.pkg)
    ELSE LET q == configureVite(scaffoldViteProject(useTypeScript), useTypeScript)
         IN  Returned(updatePackageScripts(q), q.pkg)

-----------------------------------------------------------------------------
(* plugins/husky.ts (second part): the Tailwind stage *)

\* a configuration step that adds the plugin to the config it finds
configureViteWithTailwindMerging(p, useTypeScript) ==
    LET cfg == ViteConfigPath(useTypeScript)
    IN  WriteFile(p, cfg,
                  (IF cfg \in DOMAIN p.files THEN p.files[cfg] ELSE <<>>)
                    \o << "import tailwindcss from '@tailwindcss/vite'",
                          TailwindPluginLine >>)

configureViteWithTailwind(p, useTypeScript) ==
    WriteFile(p, ViteConfigPath(useTypeScript), TailwindViteConfigContent)

addTailwindStyles(p) ==
    WriteFile(p, "src/index.css", << "@import \"tailwindcss\";" >>)

\* an update that leaves an App file alone when it renders the Router
updateAppComponentKeepingRouter(p, useTypeScript) ==
    LET app == AppFilePath(useTypeScript)
    IN  IF app \in DOMAIN p.files /\ Contains(p.files[app], ImportRouterLine)
        THEN RemoveIfExists(p, "src/App.css")
        ELSE RemoveIfExists(
                 WriteFile(p, app, TailwindAppContent(AppFileName(useTypeScript))),
                 "src/App.css")

updateAppComponent(p, useTypeScript) ==
    RemoveIfExists(
        WriteFile(p, AppFilePath(useTypeScript),
                  TailwindAppContent(AppFileName(useTypeScript))),
        "src/App.css")

setupTailwind(p, useTypeScript, installOk) ==
    IF ~installOk THEN Thrown(p, p.pkg)
    ELSE LET q == NpmInstall(p, {"tailwindcss", "@tailwindcss/vite"})
         IN  Returned(updateAppComponent(
                        addTailwindStyles(
                          configureViteWithTailwind(q, useTypeScript)),
                        useTypeScript),
                      q.pkg)

-----------------------------------------------------------------------------
(* plugins/react-router.ts: the Router stage *)

installReactRouter(p) == NpmInstall(p, {"react-router-dom"})

setupReactRouter(p, useTypeScript, installOk) ==
    IF ~installOk THEN Thrown(p, p.pkg)
    ELSE
      LET q       == installReactRouter(p)
          fileExt == IF useTypeScript THEN "ts" ELSE "js"
          jsxExt  == IF useTypeScript THEN "tsx" ELSE "jsx"
          navIndex == "src/navigation/index." \o jsxExt
          routes   == "src/navigation/routes." \o jsxExt
          login    == "src/pages/login/Login." \o fileExt \o "x"
          home     == "src/pages/home/Home." \o fileExt \o "x"
          layout   == "src/components/layout/MainLayout." \o fileExt \o "x"
          app      == AppFilePath(useTypeScript)
          d == EnsureDirs(q, {"src/navigation", "src/pages", "src/pages/login",
                              "src/pages/home", "src/components",
                              "src/components/layout"})
          w == WriteFiles(d,
                 [f \in {navIndex, routes, login, home, layout, app} |->
                    CASE f = navIndex -> << "export const Router = () => <BrowserRouter>" >>
                      [] f = routes   -> << "export const RoutesSetup = () => <Routes>" >>
                      [] f = login    -> << "export const Login" >>
                      [] f = home     -> << "export const Home", "src/pages/home/Home." \o fileExt \o "x" >>
                      [] f = layout   -> << "export const MainLayout" >>
                      [] f = app      -> RouterAppContent])
      IN  Returned(RemoveIfExists(w, "src/App.css"), q.pkg)

-----------------------------------------------------------------------------
(* plugins/prettier.ts and plugins/eslint.ts *)

installPrettier(p) == NpmInstall(p, {"prettier"})

createPrettierConfig(p) ==
    WriteFiles(p, [f \in {".prettierrc", ".prettierignore"} |->
                     << "prettier template: " \o f >>])

updatePackageScriptsForPrettier(p) ==
    [p EXCEPT !.pkg = WithScripts(p.pkg, PrettierScripts)]

\* a stage that writes its config files before it installs
setupPrettierWritingFirst(p, useTypeScript, installOk) ==
    LET c == createPrettierConfig(p)
    IN  IF ~installOk THEN Thrown(c, c.pkg)
        ELSE LET q == installPrettier(c)
             IN  Returned(updatePackageScriptsForPrettier(q), q.pkg)

setupPrettier(p, useTypeScript, installOk) ==
    IF ~installOk THEN Thrown(p, p.pkg)
    ELSE LET q == createPrettierConfig(installPrettier(p))
         IN  Returned(updatePackageScriptsForPrettier(q), q.pkg)

installEslint(p, useTypeScript) ==
    NpmInstall(p,
        {"eslint", "eslint-plugin-react", "eslint-plugin-react-hooks",
         "eslint-plugin-react-refresh", "eslint-plugin-jsx-a11y",
         "eslint-plugin-import"}
        \cup (IF useTypeScript
              THEN {"@typescript-eslint/eslint-plugin", "@typescript-eslint/parser"}
              ELSE {}))

createEslintConfig(p, useTypeScript) ==
    WriteFiles(p, [f \in {".eslintrc.json", ".eslintignore"} |->
                     IF f = ".eslintrc.json"
                     THEN << IF useTypeScript THEN "eslint config: typescript"
                                               ELSE "eslint config: javascript" >>
                     ELSE << "eslint template: .eslintignore" >>])

updatePackageScriptsForEslint(p) ==
    [p EXCEPT !.pkg = WithScripts(p.pkg, EslintScripts)]

setupEslint(p, useTypeScript, installOk) ==
    IF ~installOk THEN Thrown(p, p.pkg)
    ELSE LET q == createEslintConfig(installEslint(p, useTypeScript), useTypeScript)
         IN  Returned(updatePackageScriptsForEslint(q), q.pkg)

-----------------------------------------------------------------------------
(* plugins/husky.ts (first part): the Husky stage.  o is the outcome of    *)
(* each external command: install, gitInit, huskyInstall, chmodPreCommit,  *)
(* chmodCommitMsg, gitConfig (TRUE = exit status 0).                       *)

installHusky(p) ==
    NpmInstall(p, {"husky", "lint-staged", "@commitlint/cli",
                   "@commitlint/config-conventional"})

\* packageJson['lint-staged'] = { ... }
HuskyLintStagedWritten(existing, useTypeScript) ==
    HuskyLintStaged(useTypeScript)

\* lines 119-145: the read-merge-write of package.json
HuskyPackageJson(pkg, useTypeScript) ==
    [ WithScripts(pkg, HuskyScripts(useTypeScript)) EXCEPT
        !.lintStaged = HuskyLintStagedWritten(pkg.lintStaged, useTypeScript) ]

\* a stage in which a failing chmod of the pre-commit hook is fatal
setupHuskyChmodFatal(p, useTypeScript, o) ==
    IF ~o.install THEN Thrown(p, p.pkg)
    ELSE
      LET a == installHusky(p)
      IN
      \* git rev-parse --git-dir fails outside a repository: git init
      IF ~a.git /\ ~o.gitInit THEN Thrown(a, a.pkg)
      ELSE
        LET b == [a EXCEPT !.git = TRUE]
        IN
        IF ~o.huskyInstall THEN Thrown(b, b.pkg)
        ELSE
          LET c == EnsureDirs([b EXCEPT !.husky = TRUE], {".husky"})
              d == WriteFiles(c,
                     [f \in {".husky/pre-commit", ".husky/commit-msg",
                             "commitlint.config.js"} |->
                        CASE f = ".husky/pre-commit" -> << "npx lint-staged" >>
                          [] f = ".husky/commit-msg" -> << "npx --no -- commitlint --edit $1" >>
                          [] OTHER -> << "extends: ['@commitlint/config-conventional']" >>])
              e == [d EXCEPT !.execBits =
                      @ \cup (IF o.chmodPreCommit THEN {".husky/pre-commit"} ELSE {})
                        \cup (IF o.chmodCommitMsg THEN {".husky/commit-msg"} ELSE {})]
              f == [e EXCEPT !.pkg = HuskyPackageJson(e.pkg, useTypeScript)]
              g == WriteFile(f, ".gitmessage", << "# <type>(<scope>): <subject>" >>)
              h == [g EXCEPT !.commitTemplate = @ \/ o.gitConfig]
          IN  IF ~o.chmodPreCommit THEN Thrown(d, d.pkg)
              ELSE Returned(h, e.pkg)

setupHusky(p, useTypeScript, o) ==
    IF ~o.install THEN Thrown(p, p.pkg)
    ELSE
      LET a == installHusky(p)
      IN
      \* git rev-parse --git-dir fails outside a repository: git init
      IF ~a.git /\ ~o.gitInit THEN Thrown(a, a.pkg)
      ELSE
        LET b == [a EXCEPT !.git = TRUE]
        IN
        IF ~o.huskyInstall THEN Thrown(b, b.pkg)
        ELSE
          LET c == EnsureDirs([b EXCEPT !.husky = TRUE], {".husky"})
              d == WriteFiles(c,
                     [f \in {".husky/pre-commit", ".husky/commit-msg",
                             "commitlint.config.js"} |->
                        CASE f = ".husky/pre-commit" -> << "npx lint-staged" >>
                          [] f = ".husky/commit-msg" -> << "npx --no -- commitlint --edit $1" >>
                          [] OTHER -> << "extends: ['@commitlint/config-conventional']" >>])
              e == [d EXCEPT !.execBits =
                      @ \cup (IF o.chmodPreCommit THEN {".husky/pre-commit"} ELSE {})
                        \cup (IF o.chmodCommitMsg THEN {".husky/commit-msg"} ELSE {})]
              f == [e EXCEPT !.pkg = HuskyPackageJson(e.pkg, useTypeScript)]
              g == WriteFile(f, ".gitmessage", << "# <type>(<scope>): <subject>" >>)
              h == [g EXCEPT !.commitTemplate = @ \/ o.gitConfig]
          IN  Returned(h, e.pkg)

\* a stage that runs git init whether or not it is inside a repository
HuskyCommandsAlwaysInit(p, o) ==
    << Command("npm install", o.install) >>
    \o (IF ~o.install THEN <<>>
        ELSE << Command("git rev-parse --git-dir", p.git),
                Command("git init", o.gitInit) >>
             \o (IF ~o.gitInit THEN <<>>
                 ELSE << Command("npx husky install", o.huskyInstall) >>
                      \o (IF ~o.huskyInstall THEN <<>>
                          ELSE << Command("chmod +x pre-commit", o.chmodPreCommit),
                                  Command("chmod +x commit-msg", o.chmodCommitMsg),
                                  Command("git config commit.template",
                                          o.gitConfig) >>)))

\* the external commands of setupHusky in the order it runs them; a command
\* outside a try block that fails is the last one
HuskyCommands(p, o) ==
    << Command("npm install", o.install) >>
    \o (IF ~o.install THEN <<>>
        ELSE << Command("git rev-parse --git-dir", p.git) >>
             \o (IF p.git THEN <<>> ELSE << Command("git init", o.gitInit) >>)
             \o (IF ~p.git /\ ~o.gitInit THEN <<>>
                 ELSE << Command("npx husky install", o.huskyInstall) >>
                      \o (IF ~o.huskyInstall THEN <<>>
                          ELSE << Command("chmod +x pre-commit", o.chmodPreCommit),
                                  Command("chmod +x commit-msg", o.chmodCommitMsg),
                                  Command("git config commit.template",
                                          o.gitConfig) >>)))

HuskyOutcomes ==
    [install : BOOLEAN, gitInit : BOOLEAN, huskyInstall : BOOLEAN,
     chmodPreCommit : BOOLEAN, chmodCommitMsg : BOOLEAN, gitConfig : BOOLEAN]

-----------------------------------------------------------------------------
(* plugins/rtk-query.ts: the Redux Toolkit Query stage *)

ImportStoreProviderLine == "import { StoreProvider } from './store/StoreProvider';"
WrappedRouterLine == "return ( <StoreProvider> <Router /> </StoreProvider> );"

\* line.includes('StoreProvider'), for the lines an App file can hold
MentionsStoreProvider(content) ==
    \E i \in 1..Len(content) :
        content[i] \in {ImportStoreProviderLine, WrappedRouterLine}

\* String.prototype.replace with a non-global pattern: the first match only
RECURSIVE ReplaceFirst(_, _, _)
ReplaceFirst(content, line, replacement) ==
    IF content = <<>> THEN <<>>
    ELSE IF Head(content) = line THEN replacement \o Tail(content)
    ELSE <<Head(content)>> \o ReplaceFirst(Tail(content), line, replacement)

installRtkQuery(p) == NpmInstall(p, {"@reduxjs/toolkit", "react-redux"})

\* the two edits without the test for an earlier StoreProvider
WrapAppWithStoreProviderUnguarded(appContent) ==
    ReplaceFirst(ReplaceFirst(appContent, ImportRouterLine,
                              <<ImportRouterLine, ImportStoreProviderLine>>),
                 ReturnRouterLine, <<WrappedRouterLine>>)

\* lines 270-292: the new content of the App file
WrapAppWithStoreProvider(appContent) ==
    LET imported ==
            IF ~MentionsStoreProvider(appContent)
            THEN ReplaceFirst(appContent, ImportRouterLine,
                              <<ImportRouterLine, ImportStoreProviderLine>>)
            ELSE appContent
    IN  ReplaceFirst(imported, ReturnRouterLine, <<WrappedRouterLine>>)

\* a hooks file for every language
HooksFileWrittenAlways(useTypeScript) == TRUE

\* lines 254-264: if (useTypeScript) { ... write hooks/index }
HooksFileWritten(useTypeScript) == useTypeScript

\* a stage that reads the App file before it writes anything
setupRtkQueryReadingAppFirst(p, useTypeScript, installOk) ==
    IF ~installOk THEN Thrown(p, p.pkg)
    ELSE IF AppFilePath(useTypeScript) \notin DOMAIN p.files
    THEN Thrown(installRtkQuery(p), installRtkQuery(p).pkg)
    ELSE
      LET q       == installRtkQuery(p)
          fileExt == IF useTypeScript THEN "ts" ELSE "js"
          jsxExt  == IF useTypeScript THEN "tsx" ELSE "jsx"
          store    == "src/store/index." \o fileExt
          provider == "src/store/StoreProvider." \o jsxExt
          slice    == "src/api/apiSlice." \o fileExt
          userApi  == "src/api/user/userApi." \o fileExt
          postsApi == "src/api/posts/postsApi." \o fileExt
          apiIndex == "src/api/index." \o fileExt
          hooks    == "src/hooks/index." \o fileExt
          app      == AppFilePath(useTypeScript)
          d == EnsureDirs(q, {"src/store", "src/api", "src/hooks",
                              "src/api/user", "src/api/posts"})
          paths == {store, provider, slice, userApi, postsApi, apiIndex}
                      \cup (IF HooksFileWritten(useTypeScript) THEN {hooks}
                                                                ELSE {})
          w == WriteFiles(d,
                 [f \in paths |->
                    << "rtk template: " \o f,
                       IF useTypeScript THEN "typescript" ELSE "javascript" >>])
      IN  IF app \notin DOMAIN w.files
          THEN Thrown(w, q.pkg)              \* fs.readFile: ENOENT
          ELSE Returned(WriteFile(w, app, WrapAppWithStoreProvider(w.files[app])),
                        q.pkg)

setupRtkQuery(p, useTypeScript, installOk) ==
    IF ~installOk THEN Thrown(p, p.pkg)
    ELSE
      LET q       == installRtkQuery(p)
          fileExt == IF useTypeScript THEN "ts" ELSE "js"
          jsxExt  == IF useTypeScript THEN "tsx" ELSE "jsx"
          store    == "src/store/index." \o fileExt
          provider == "src/store/StoreProvider." \o jsxExt
          slice    == "src/api/apiSlice." \o fileExt
          userApi  == "src/api/user/userApi." \o fileExt
          postsApi == "src/api/posts/postsApi." \o fileExt
          apiIndex == "src/api/index." \o fileExt
          hooks    == "src/hooks/index." \o fileExt
          app      == AppFilePath(useTypeScript)
          d == EnsureDirs(q, {"src/store", "src/api", "src/hooks",
                              "src/api/user", "src/api/posts"})
          paths == {store, provider, slice, userApi, postsApi, apiIndex}
                      \cup (IF HooksFileWritten(useTypeScript) THEN {hooks}
                                                                ELSE {})
          w == WriteFiles(d,
                 [f \in paths |->
                    << "rtk template: " \o f,
                       IF useTypeScript THEN "typescript" ELSE "javascript" >>])
      IN  IF app \notin DOMAIN w.files
          THEN Thrown(w, q.pkg)              \* fs.readFile: ENOENT
          ELSE Returned(WriteFile(w, app, WrapAppWithStoreProvider(w.files[app])),
                        q.pkg)

-----------------------------------------------------------------------------
(* The parts of the state a specification does not use *)

NoChoices ==
    [useTypeScript |-> FALSE, useTailwind |-> FALSE, useReactRouter |-> FALSE,
     useRtkQuery |-> FALSE, usePrettier |-> FALSE, useEslint |-> FALSE,
     useHusky |-> FALSE]

NoMain == [asked |-> <<>>, exited |-> FALSE, exitCode |-> 0]

GenIdle ==
    /\ main = NoMain
    /\ cmds = <<>>
    /\ choices = NoChoices
    /\ pc = "idle"
    /\ proj = NoProject
    /\ invoked = <<>>
    /\ pkgRead = NoProject.pkg
    /\ lastTS = FALSE

NameIdle ==
    /\ input = <<>>
    /\ entryKind = "absent"
    /\ verdict = "not asked"

NoEnv ==
    [CI |-> "<unset>", XREACT_AUTO_RUN |-> "<unset>",
     npm_config_foreground_scripts |-> "<unset>",
     npm_config_global |-> "<unset>"]

NoProc == [stdinIsTTY |-> FALSE, stdoutIsTTY |-> FALSE, dirnameIsGlobal |-> FALSE]

NoHook ==
    [pc |-> "idle", revision |-> "none", usage |-> FALSE, launched |-> FALSE,
     incomplete |-> FALSE, manual |-> FALSE, warned |-> FALSE, exitCode |-> 0,
     threw |-> FALSE, status |-> 0]

HookIdle ==
    /\ env = NoEnv
    /\ proc = NoProc
    /\ hook = NoHook

-----------------------------------------------------------------------------
(* generator.ts: generateProject, and index.ts: the config main passes it *)

Choices ==
    [useTypeScript : BOOLEAN, useTailwind : BOOLEAN, useReactRouter : BOOLEAN,
     useRtkQuery : BOOLEAN, usePrettier : BOOLEAN, useEslint : BOOLEAN,
     useHusky : BOOLEAN]

\* the ProjectConfig of generator.ts has these two flags and the app name
config ==
    [useTypeScript |-> choices.useTypeScript, useTailwind |-> choices.useTailwind]

Init ==
    /\ choices \in Choices
    /\ pc = "vite"
    /\ proj = NoProject
    /\ invoked = <<>>
    /\ pkgRead = NoProject.pkg
    /\ lastTS = choices.useTypeScript
    /\ main = NoMain
    /\ cmds = <<>>
    /\ NameIdle
    /\ HookIdle

\* the statement order of generateProject with Router before Tailwind
StepAfterRouterFirst(step) ==
    CASE step = "vite"     -> "router"
      [] step = "router"   -> "tailwind"
      [] step = "tailwind" -> "done"

\* the statement order of generateProject: 1. Vite, 2. Tailwind, 3. React Router
StepAfter(step) ==
    CASE step = "vite"     -> "tailwind"
      [] step = "tailwind" -> "router"
      [] step = "router"   -> "done"

\* what a stage call leaves in the state; a throw ends generateProject
StageCall(stage, r, next) ==
    /\ proj' = r.proj
    /\ pkgRead' = r.read
    /\ invoked' = Append(invoked, [stage |-> stage, threw |-> r.threw])
    /\ pc' = IF r.threw THEN "failed" ELSE next

\* 1. Vite
GenVite ==
    /\ pc = "vite"
    /\ \E ok \in BOOLEAN :
          /\ StageCall("base", setupVite(proj, config.useTypeScript, ok),
                       StepAfter("vite"))
          /\ cmds' = << Command("npm create vite", ok) >>
    /\ UNCHANGED <<choices, lastTS, main, nameVars, hookVars>>

\* 2. Tailwind
GenTailwind ==
    /\ pc = "tailwind"
    /\ IF config.useTailwind
       THEN \E ok \in BOOLEAN :
              /\ StageCall("tailwind",
                           setupTailwind(proj, config.useTypeScript, ok),
                           StepAfter("tailwind"))
              /\ cmds' = << Command("npm install", ok) >>
       ELSE /\ pc' = StepAfter("tailwind")
            /\ UNCHANGED <<proj, pkgRead, invoked, cmds>>
    /\ UNCHANGED <<choices, lastTS, main, nameVars, hookVars>>

\* 3. React Router
GenRouter ==
    /\ pc = "router"
    /\ \E ok \in BOOLEAN :
          /\ StageCall("router",
                       setupReactRouter(proj, config.useTypeScript, ok),
                       StepAfter("router"))
          /\ cmds' = << Command("npm install", ok) >>
    /\ UNCHANGED <<choices, lastTS, main, nameVars, hookVars>>

Next == GenVite \/ GenTailwind \/ GenRouter

Spec == Init /\ [][Next]_vars

-----------------------------------------------------------------------------
(* The stages called one at a time on an existing project, as the add-on   *)
(* commands call them: useTypeScript is detected from tsconfig.json.       *)

\* a detection that looks for the wrong file
detectTypeScriptByJsConfig(p) == "jsconfig.json" \in DOMAIN p.files

detectTypeScript(p) == "tsconfig.json" \in DOMAIN p.files

UserScripts ==
    { EmptyMap,
      [k \in {"test"} |-> "vitest run"],
      [k \in {"format"} |-> "biome format --write ." ] }

UserLintStaged ==
    { EmptyMap, [k \in {"*.md"} |-> "markdownlint --fix"] }

StartProjects ==
    { [ base EXCEPT !.pkg.scripts = SpreadMerge(@, us),
                    !.pkg.lintStaged = ls,
                    !.git = g ] :
        base \in { setupVite(NoProject, ts, TRUE).proj : ts \in BOOLEAN },
        us \in UserScripts, ls \in UserLintStaged, g \in BOOLEAN }

InitStages ==
    /\ choices = NoChoices
    /\ pc = "idle"
    /\ proj \in StartProjects
    /\ invoked = <<>>
    /\ pkgRead = proj.pkg
    /\ lastTS = detectTypeScript(proj)
    /\ main = NoMain
    /\ cmds = <<>>
    /\ NameIdle
    /\ HookIdle

Call(stage, r) ==
    /\ Len(invoked) < MaxCalls
    /\ proj' = r.proj
    /\ pkgRead' = r.read
    /\ invoked' = Append(invoked, [stage |-> stage, threw |-> r.threw])
    /\ lastTS' = detectTypeScript(proj)
    /\ pc' = IF r.threw THEN "threw" ELSE "returned"
    /\ UNCHANGED <<choices, main, nameVars, hookVars>>

CallUpdatePackageScripts ==
    /\ Call("base", Returned(updatePackageScripts(proj), proj.pkg))
    /\ cmds' = <<>>

CallTailwind ==
    \E ok \in BOOLEAN :
        /\ Call("tailwind", setupTailwind(proj, detectTypeScript(proj), ok))
        /\ cmds' = << Command("npm install", ok) >>

CallRouter ==
    \E ok \in BOOLEAN :
        /\ Call("router", setupReactRouter(proj, detectTypeScript(proj), ok))
        /\ cmds' = << Command("npm install", ok) >>

CallRtkQuery ==
    \E ok \in BOOLEAN :
        /\ Call("rtk", setupRtkQuery(proj, detectTypeScript(proj), ok))
        /\ cmds' = << Command("npm install", ok) >>

CallPrettier ==
    \E ok \in BOOLEAN :
        /\ Call("prettier", setupPrettier(proj, detectTypeScript(proj), ok))
        /\ cmds' = << Command("npm install", ok) >>

CallEslint ==
    \E ok \in BOOLEAN :
        /\ Call("eslint", setupEslint(proj, detectTypeScript(proj), ok))
        /\ cmds' = << Command("npm install", ok) >>

CallHusky ==
    \E o \in HuskyOutcomes :
        /\ Call("husky", setupHusky(proj, detectTypeScript(proj), o))
        /\ cmds' = HuskyCommands(proj, o)

NextStages ==
    \/ CallUpdatePackageScripts
    \/ CallTailwind
    \/ CallRouter
    \/ CallRtkQuery
    \/ CallPrettier
    \/ CallEslint
    \/ CallHusky

SpecStages == InitStages /\ [][NextStages]_vars

-----------------------------------------------------------------------------
(* index.ts: the validate function of the app-name prompt.  An answer is a *)
(* sequence of characters.                                                 *)

LowerCase ==
    {"a", "b", "c", "d", "e", "f", "g", "h", "i", "j", "k", "l", "m",
     "n", "o", "p", "q", "r", "s", "t", "u", "v", "w", "x", "y", "z"}
Digits == {"0", "1", "2", "3", "4", "5", "6", "7", "8", "9"}
WhiteSpace == {" ", "\t", "\n"}

RECURSIVE TrimStart(_)
TrimStart(str) ==
    IF str # <<>> /\ Head(str) \in WhiteSpace THEN TrimStart(Tail(str)) ELSE str

RECURSIVE TrimEnd(_)
TrimEnd(str) ==
    IF str # <<>> /\ str[Len(str)] \in WhiteSpace
    THEN TrimEnd(SubSeq(str, 1, Len(str) - 1)) ELSE str

\* String.prototype.trim
Trim(str) == TrimEnd(TrimStart(str))

UpperCase ==
    {"A", "B", "C", "D", "E", "F", "G", "H", "I", "J", "K", "L", "M",
     "N", "O", "P", "Q", "R", "S", "T", "U", "V", "W", "X", "Y", "Z"}

\* /^[a-z0-9-]+$/i.test(str)
NameRegexIgnoreCase(str) ==
    /\ Len(str) >= 1
    /\ \A i \in 1..Len(str) :
          str[i] \in LowerCase \cup UpperCase \cup Digits \cup {"-"}

\* /^[a-z0-9-]+$/.test(str)
NameRegex(str) ==
    /\ Len(str) >= 1
    /\ \A i \in 1..Len(str) : str[i] \in LowerCase \cup Digits \cup {"-"}

\* fs.existsSync(path): true for whatever exists at the path
ExistsSync(kind) == kind # "absent"

Accepted == "true"

validate(answer, kind) ==
    IF Trim(answer) = <<>> THEN "App name cannot be empty"
    ELSE IF ~NameRegex(answer)
    THEN "App name can only contain lowercase letters, numbers, and hyphens"
    ELSE IF ExistsSync(kind) THEN "A directory with this name already exists"
    ELSE Accepted

Alphabet == {"a", "9", "-", "A", " ", "_"}

Answers == UNION { [1..n -> Alphabet] : n \in 0..MaxLen }

EntryKinds == {"absent", "file", "dir"}

InitValidate ==
    /\ GenIdle
    /\ HookIdle
    /\ input \in Answers
    /\ entryKind \in EntryKinds
    /\ verdict = "not asked"

\* inquirer hands the typed answer to validate
AnswerAppName ==
    /\ verdict = "not asked"
    /\ verdict' = validate(input, entryKind)
    /\ UNCHANGED <<genVars, hookVars, input, entryKind>>

NextValidate == AnswerAppName

SpecValidate == InitValidate /\ [][NextValidate]_vars

-----------------------------------------------------------------------------
(* postinstall.ts (the foreground-scripts revision) and its earlier        *)
(* revision (stdin TTY only).  An unset environment variable is "<unset>". *)

Unset == "<unset>"

\* Boolean(process.env.X): a set, non-empty string is truthy
Truthy(value) == value # Unset /\ value # ""

\* the test of the install directory alone
isGlobalInstallDirnameOnly == proc.dirnameIsGlobal

isGlobalInstall ==
    proc.dirnameIsGlobal \/ env.npm_config_global = "true"

isCI == Truthy(env.CI)

\* the gate without its CI test
shouldAutoRunIgnoringCI ==
    /\ env.XREACT_AUTO_RUN # "false"
    /\ \/ (proc.stdinIsTTY /\ proc.stdoutIsTTY)
       \/ env.npm_config_foreground_scripts = "true"

\* the gate that accepts npm foreground scripts only, not a TTY
shouldAutoRunForegroundOnly ==
    /\ env.XREACT_AUTO_RUN # "false"
    /\ ~isCI
    /\ env.npm_config_foreground_scripts = "true"

\* postinstall.ts lines 42-45
shouldAutoRunForeground ==
    /\ env.XREACT_AUTO_RUN # "false"
    /\ ~isCI
    /\ \/ (proc.stdinIsTTY /\ proc.stdoutIsTTY)
       \/ env.npm_config_foreground_scripts = "true"

\* earlier revision lines 41-43
shouldAutoRunTTY ==
    /\ env.XREACT_AUTO_RUN # "false"
    /\ proc.stdinIsTTY
    /\ ~isCI

Envs ==
    [CI : {Unset, "", "true", "false"},
     XREACT_AUTO_RUN : {Unset, "false", "true"},
     npm_config_foreground_scripts : {Unset, "true", "false"},
     npm_config_global : {Unset, "true"}]

Procs == [stdinIsTTY : BOOLEAN, stdoutIsTTY : BOOLEAN, dirnameIsGlobal : BOOLEAN]

\* spawnSync(...).status: 0, the generator's exit code, or null (-1 here)
ExitStatuses == {0, 1, -1}

InitHook ==
    /\ GenIdle
    /\ NameIdle
    /\ env \in Envs
    /\ proc \in Procs
    /\ hook = [NoHook EXCEPT !.pc = "start"]

\* a hook that passes the generator's failure on to npm
PostInstallExitPropagating(threw, launched, status) ==
    IF threw \/ (launched /\ status # 0) THEN 1 ELSE 0

\* the exit code of the hook's process: the catch swallows what is thrown,
\* the generator's status is only compared, and nothing calls process.exit
PostInstallExit(threw, launched, status) == 0

\* the body of postInstall; chmodThrows: fs.chmod of the main script fails
PostInstallBody(revision, shouldAutoRun, chmodThrows, status) ==
    /\ hook.pc = "start"
    /\ LET launched == ~chmodThrows /\ ~isGlobalInstall /\ shouldAutoRun
           h == [hook EXCEPT !.pc = "done", !.revision = revision,
                             !.threw = chmodThrows,
                             !.exitCode =
                                 PostInstallExit(chmodThrows, launched, status)]
       IN  hook' =
             IF chmodThrows
             THEN [h EXCEPT !.warned = TRUE]
             ELSE IF isGlobalInstall
             THEN h
             ELSE IF shouldAutoRun
             THEN [h EXCEPT !.usage = TRUE, !.launched = TRUE,
                            !.status = status,
                            !.incomplete = (status # 0)]
             ELSE [h EXCEPT !.usage = TRUE, !.manual = TRUE]
    /\ UNCHANGED <<genVars, nameVars, env, proc>>

PostInstallForeground ==
    \E chmodThrows \in BOOLEAN, status \in ExitStatuses :
        PostInstallBody("foreground", shouldAutoRunForeground, chmodThrows, status)

PostInstallTTY ==
    \E chmodThrows \in BOOLEAN, status \in ExitStatuses :
        PostInstallBody("tty", shouldAutoRunTTY, chmodThrows, status)

NextHook == PostInstallForeground \/ PostInstallTTY

SpecHook == InitHook /\ [][NextHook]_vars

-----------------------------------------------------------------------------
(* index.ts: main.  Three prompts, each awaited before the next, then      *)
(* generateProject; whatever is thrown inside reaches the catch, which     *)
(* exits with code 1.  An inquirer prompt may itself reject (closed input, *)
(* interrupt).                                                             *)

\* default: 'my-react-app', the answer inquirer takes for an empty line
DefaultAppName == <<"m", "y", "-", "r", "e", "a", "c", "t", "-", "a", "p", "p">>

filterInput(typed) == IF typed = <<>> THEN DefaultAppName ELSE typed

TypedAnswers == UNION { [1..n -> Alphabet] : n \in 0..MaxTyped }

\* a prompt that takes whatever was typed
AnsweredAlways(v) == TRUE

\* inquirer takes the answer when validate returns true and asks again when
\* it returns a message
Answered(v) == v = Accepted

\* the toggle asked before the language
PromptStepAfterToggleFirst(step) ==
    CASE step = "askName"     -> "askTailwind"
      [] step = "askTailwind" -> "askTS"
      [] step = "askTS"       -> "vite"

\* the statement order of main: app name, language, Tailwind, generateProject
PromptStepAfter(step) ==
    CASE step = "askName"     -> "askTS"
      [] step = "askTS"       -> "askTailwind"
      [] step = "askTailwind" -> "vite"

InitMain ==
    /\ choices = NoChoices
    /\ pc = "askName"
    /\ proj = NoProject
    /\ invoked = <<>>
    /\ pkgRead = NoProject.pkg
    /\ lastTS = FALSE
    /\ main = NoMain
    /\ cmds = <<>>
    /\ NameIdle
    /\ HookIdle

\* lines 15-34: the app-name prompt
PromptAppName ==
    /\ pc = "askName"
    /\ \E typed \in TypedAnswers, kind \in EntryKinds, rejects \in BOOLEAN :
          IF rejects
          THEN /\ pc' = "failed"
               /\ UNCHANGED <<nameVars, main>>
          ELSE LET answer == filterInput(typed)
                   v      == validate(answer, kind)
               IN  /\ input' = answer
                   /\ entryKind' = kind
                   /\ verdict' = v
                   /\ pc' = IF Answered(v) THEN PromptStepAfter("askName")
                                           ELSE "askName"
                   /\ main' = IF Answered(v)
                              THEN [main EXCEPT !.asked = Append(@, "appName")]
                              ELSE main
    /\ UNCHANGED <<choices, proj, invoked, pkgRead, lastTS, cmds, hookVars>>

\* lines 37-47: TypeScript or JavaScript
PromptUseTypeScript ==
    /\ pc = "askTS"
    /\ \E value \in BOOLEAN, rejects \in BOOLEAN :
          IF rejects
          THEN /\ pc' = "failed"
               /\ UNCHANGED <<choices, lastTS, main>>
          ELSE /\ choices' = [choices EXCEPT !.useTypeScript = value]
               /\ lastTS' = value
               /\ main' = [main EXCEPT !.asked = Append(@, "useTypeScript")]
               /\ pc' = PromptStepAfter("askTS")
    /\ UNCHANGED <<proj, invoked, pkgRead, cmds, nameVars, hookVars>>

\* lines 50-57: Tailwind CSS
PromptUseTailwind ==
    /\ pc = "askTailwind"
    /\ \E value \in BOOLEAN, rejects \in BOOLEAN :
          IF rejects
          THEN /\ pc' = "failed"
               /\ UNCHANGED <<choices, main>>
          ELSE /\ choices' = [choices EXCEPT !.useTailwind = value]
               /\ main' = [main EXCEPT !.asked = Append(@, "useTailwind")]
               /\ pc' = PromptStepAfter("askTailwind")
    /\ UNCHANGED <<proj, invoked, pkgRead, lastTS, cmds, nameVars, hookVars>>

\* lines 68-73: generateProject returned; main returns and node exits with 0
MainReturn ==
    /\ pc = "done"
    /\ pc' = "exit"
    /\ main' = [main EXCEPT !.exited = TRUE, !.exitCode = 0]
    /\ UNCHANGED <<choices, proj, invoked, pkgRead, lastTS, cmds, nameVars,
                   hookVars>>

\* lines 75-78: the catch
MainCatch ==
    /\ pc = "failed"
    /\ pc' = "exit"
    /\ main' = [main EXCEPT !.exited = TRUE, !.exitCode = 1]
    /\ UNCHANGED <<choices, proj, invoked, pkgRead, lastTS, cmds, nameVars,
                   hookVars>>

NextMain ==
    \/ PromptAppName \/ PromptUseTypeScript \/ PromptUseTailwind
    \/ GenVite \/ GenTailwind \/ GenRouter
    \/ MainReturn \/ MainCatch

SpecMain == InitMain /\ [][NextMain]_vars

-----------------------------------------------------------------------------
(* The add-on commands (xreact-add-react-router, xreact-add-rtk-query):    *)
(* run() detects TypeScript in the current directory, calls one stage on   *)
(* it and exits with 1 if the stage throws.  proj is the current           *)
(* directory; each step is one run of a command.                           *)

\* the project without its App file
WithoutAppFile(p) ==
    LET app == AppFilePath(detectTypeScript(p))
    IN  [p EXCEPT !.files = [f \in DOMAIN p.files \ {app} |-> p.files[f]]]

\* directories an add-on is run in: a scaffolded project, the same with
\* Tailwind or the Router added, the same with its App file deleted
AddOnProjects ==
    StartProjects
    \cup { setupTailwind(p, detectTypeScript(p), TRUE).proj : p \in StartProjects }
    \cup { setupReactRouter(p, detectTypeScript(p), TRUE).proj : p \in StartProjects }
    \cup { WithoutAppFile(p) : p \in StartProjects }

InitAddOn ==
    /\ choices = NoChoices
    /\ pc = "idle"
    /\ proj \in AddOnProjects
    /\ invoked = <<>>
    /\ pkgRead = proj.pkg
    /\ lastTS = detectTypeScript(proj)
    /\ main = NoMain
    /\ cmds = <<>>
    /\ NameIdle
    /\ HookIdle

\* a run that reports success whatever the stage did
AddOnExitSwallowing(threw) == 0

\* catch (err) { console.error(...); process.exit(1) }
AddOnExit(threw) == IF threw THEN 1 ELSE 0

\* run(): one stage on the current directory
Run(stage, useTypeScript, r) ==
    /\ Len(invoked) < MaxRuns
    /\ proj' = r.proj
    /\ pkgRead' = r.read
    /\ invoked' = Append(invoked, [stage |-> stage, threw |-> r.threw])
    /\ lastTS' = useTypeScript
    /\ pc' = "exit"
    /\ main' = [NoMain EXCEPT !.exited = TRUE, !.exitCode = AddOnExit(r.threw)]
    /\ UNCHANGED <<choices, nameVars, hookVars>>

RunAddReactRouter ==
    \E ok \in BOOLEAN :
        LET useTypeScript == detectTypeScript(proj)
        IN  /\ Run("router", useTypeScript,
                   setupReactRouter(proj, useTypeScript, ok))
            /\ cmds' = << Command("npm install", ok) >>

RunAddRtkQuery ==
    \E ok \in BOOLEAN :
        LET useTypeScript == detectTypeScript(proj)
        IN  /\ Run("rtk", useTypeScript, setupRtkQuery(proj, useTypeScript, ok))
            /\ cmds' = << Command("npm install", ok) >>

NextAddOn == RunAddReactRouter \/ RunAddRtkQuery

SpecAddOn == InitAddOn /\ [][NextAddOn]_vars

-----------------------------------------------------------------------------
(* Properties of the orchestrator (Spec) *)

StageRank(stage) ==
    CASE stage = "base"     -> 1
      [] stage = "tailwind" -> 2
      [] stage = "router"   -> 3
      [] stage = "rtk"      -> 4
      [] stage = "prettier" -> 5
      [] stage = "eslint"   -> 6
      [] stage = "husky"    -> 7

StageNames == {"base", "tailwind", "router", "rtk", "prettier", "eslint", "husky"}

\* the flag of the user's selection that belongs to a stage
Selected(stage) ==
    CASE stage = "base"     -> TRUE
      [] stage = "tailwind" -> choices.useTailwind
      [] stage = "router"   -> choices.useReactRouter
      [] stage = "rtk"      -> choices.useRtkQuery
      [] stage = "prettier" -> choices.usePrettier
      [] stage = "eslint"   -> choices.useEslint
      [] stage = "husky"    -> choices.useHusky

InvokedStages == { invoked[i].stage : i \in 1..Len(invoked) }

\* C1: generateProject calls the stages in the order base scaffold, Tailwind,
\* Router, Redux Toolkit Query, Prettier, ESLint, Husky: the calls made so far
\* are in strictly increasing rank, and when a stage is called every stage of
\* lower rank was either called before it and returned, or was skipped
\* because its flag is off.
C1_FixedStageOrder ==
    /\ \A i, j \in 1..Len(invoked) :
          i < j => StageRank(invoked[i].stage) < StageRank(invoked[j].stage)
    /\ \A j \in 1..Len(invoked) :
          \A s \in StageNames :
             StageRank(s) < StageRank(invoked[j].stage) =>
                \/ \E i \in 1..(j - 1) :
                      invoked[i].stage = s /\ ~invoked[i].threw
                \/ ~Selected(s)

C1_Witness ==
    /\ pc = "done"
    /\ Len(invoked) = 3
    /\ invoked[1].stage = "base"
    /\ invoked[2].stage = "tailwind"
    /\ invoked[3].stage = "router"

\* C2: when generateProject has completed, the base scaffold has run and
\* every other stage has run if and only if the user selected it.
C2_StagesRunIffSelected ==
    pc = "done" =>
        /\ "base" \in InvokedStages
        /\ \A s \in StageNames \ {"base"} : (s \in InvokedStages) <=> Selected(s)

HasRouterWrapper(content) ==
    Contains(content, ReturnRouterLine) \/ Contains(content, WrappedRouterLine)

HasTailwindMarkup(content) ==
    Contains(content, TailwindMarkup("App.tsx"))
        \/ Contains(content, TailwindMarkup("App.jsx"))

AppFile == proj.files[AppFilePath(config.useTypeScript)]

\* C3: when Router and Tailwind are both selected, the App file of the
\* completed project holds both the router wrapper and the Tailwind markup.
C3_RouterAndTailwindInApp ==
    (pc = "done" /\ choices.useReactRouter /\ choices.useTailwind) =>
        /\ AppFilePath(config.useTypeScript) \in DOMAIN proj.files
        /\ HasRouterWrapper(AppFile)
        /\ HasTailwindMarkup(AppFile)

\* C4: {TypeScript: true, Tailwind: true, Router: false, RTK-Query: false}
\* ends with the Tailwind Vite config, the Tailwind App component and no
\* src/navigation directory.
C4_TailwindOnlyProject ==
    (/\ pc = "done"
     /\ choices.useTypeScript /\ choices.useTailwind
     /\ ~choices.useReactRouter /\ ~choices.useRtkQuery) =>
        /\ proj.files["vite.config.ts"] = TailwindViteConfigContent
        /\ proj.files["src/App.tsx"] = TailwindAppContent("App.tsx")
        /\ "src/navigation" \notin proj.dirs

-----------------------------------------------------------------------------
(* Properties of the app-name validator (SpecValidate) *)

IsBlank(answer) == \A i \in 1..Len(answer) : answer[i] \in WhiteSpace

HasForeignCharacter(answer) ==
    \E i \in 1..Len(answer) : answer[i] \notin LowerCase \cup Digits \cup {"-"}

\* C5 as amended: validate rejects every empty or whitespace-only answer,
\* every answer with a character outside [a-z0-9-] and every answer that
\* names something that exists, a file as well as a directory; it accepts
\* every other answer and nothing else.
C5_ValidatorAcceptsExactly ==
    verdict # "not asked" =>
        /\ IsBlank(input) => verdict # Accepted
        /\ HasForeignCharacter(input) => verdict # Accepted
        /\ entryKind # "absent" => verdict # Accepted
        /\ (~IsBlank(input) /\ ~HasForeignCharacter(input) /\ entryKind = "absent")
              => verdict = Accepted

C5_Witness ==
    /\ verdict = Accepted
    /\ input = <<"a", "-", "9">>

\* C5 as stated: only an existing directory of that name is a collision;
\* every other well-formed name is accepted.
C5_RejectsOnlyExistingDirectory ==
    verdict # "not asked" =>
        /\ IsBlank(input) => verdict # Accepted
        /\ HasForeignCharacter(input) => verdict # Accepted
        /\ entryKind = "dir" => verdict # Accepted
        /\ (~IsBlank(input) /\ ~HasForeignCharacter(input) /\ entryKind # "dir")
              => verdict = Accepted

-----------------------------------------------------------------------------
(* Properties of the package.json rewrites (SpecStages) *)

\* the script keys a stage writes, and their values
OwnScripts(stage, useTypeScript) ==
    CASE stage = "base"     -> ViteScripts
      [] stage = "prettier" -> PrettierScripts
      [] stage = "eslint"   -> EslintScripts
      [] stage = "husky"    -> HuskyScripts(useTypeScript)
      [] OTHER              -> EmptyMap

ScriptStages == {"base", "prettier", "eslint", "husky"}

\* the calls that reached their package.json rewrite and wrote key k
WritersOf(k) ==
    { i \in 1..Len(invoked) :
        /\ ~invoked[i].threw
        /\ k \in DOMAIN OwnScripts(invoked[i].stage, detectTypeScript(proj)) }

Latest(indices) == CHOOSE i \in indices : \A j \in indices : j <= i

AllScriptKeys ==
    UNION { DOMAIN OwnScripts(st, ts) : st \in ScriptStages, ts \in BOOLEAN }

\* C6: after stages were run in sequence, every script key that one of them
\* adds is present, and its value is the one the last stage that adds it
\* wrote: distinct keys are all kept, a shared key has the later value.
C6_ScriptsLastWriterWins ==
    \A k \in AllScriptKeys :
        WritersOf(k) # {} =>
            /\ k \in DOMAIN proj.pkg.scripts
            /\ proj.pkg.scripts[k] =
                  OwnScripts(invoked[Latest(WritersOf(k))].stage,
                             detectTypeScript(proj))[k]

C6_Witness ==
    /\ Len(invoked) = 2
    /\ invoked[1] = [stage |-> "prettier", threw |-> FALSE]
    /\ invoked[2] = [stage |-> "husky", threw |-> FALSE]
    /\ proj.pkg.scripts["format"] = HuskyScripts(TRUE)["format"]
    /\ proj.pkg.scripts["format"] # PrettierScripts["format"]
    /\ "prepare" \in DOMAIN proj.pkg.scripts

LastCall == invoked[Len(invoked)]

\* C7: the package.json a script-writing stage writes back differs from the
\* one it read only in the script keys the stage defines and, for Husky, in
\* lint-staged: every other script key and every other top-level field is as
\* it was read.
C7_RewritePreservesOtherFields ==
    (Len(invoked) > 0 /\ LastCall.stage \in ScriptStages) =>
        /\ \A k \in DOMAIN pkgRead.scripts :
              k \notin DOMAIN OwnScripts(LastCall.stage, lastTS) =>
                 /\ k \in DOMAIN proj.pkg.scripts
                 /\ proj.pkg.scripts[k] = pkgRead.scripts[k]
        /\ proj.pkg.other = pkgRead.other
        /\ proj.pkg.deps = pkgRead.deps
        /\ LastCall.stage # "husky" => proj.pkg.lintStaged = pkgRead.lintStaged

C7_Witness ==
    /\ Len(invoked) > 0
    /\ LastCall = [stage |-> "prettier", threw |-> FALSE]
    /\ "test" \in DOMAIN proj.pkg.scripts
    /\ "format" \in DOMAIN proj.pkg.scripts
    /\ proj.pkg.other # EmptyMap

\* C8: after setupHusky, every lint-staged key that was in package.json and
\* that Husky does not define is still there with its old value.
C8_HuskyKeepsLintStagedKeys ==
    (Len(invoked) > 0 /\ LastCall = [stage |-> "husky", threw |-> FALSE]) =>
        \A k \in DOMAIN pkgRead.lintStaged :
            k \notin DOMAIN HuskyLintStaged(lastTS) =>
                /\ k \in DOMAIN proj.pkg.lintStaged
                /\ proj.pkg.lintStaged[k] = pkgRead.lintStaged[k]

-----------------------------------------------------------------------------
(* Properties of the postinstall hook (SpecHook) *)

\* C9: with CI set (to any non-empty value) the hook never launches the
\* generator, whatever the TTY state, npm_config_foreground_scripts and
\* XREACT_AUTO_RUN are.
C9_NoLaunchUnderCI ==
    (env.CI # Unset /\ env.CI # "") => ~hook.launched

C9_Witness ==
    /\ hook.pc = "done"
    /\ env.CI = "true"
    /\ proc.stdinIsTTY /\ proc.stdoutIsTTY /\ ~proc.dirnameIsGlobal
    /\ env.npm_config_foreground_scripts = "true"
    /\ env.XREACT_AUTO_RUN = "true"
    /\ env.npm_config_global = Unset
    /\ hook.manual
    /\ ~hook.launched

InteractiveTTY == proc.stdinIsTTY /\ proc.stdoutIsTTY

StdinTTY == proc.stdinIsTTY

ForegroundScripts == env.npm_config_foreground_scripts = "true"

GlobalInstall == proc.dirnameIsGlobal \/ env.npm_config_global = "true"

DisabledByFlag == env.XREACT_AUTO_RUN = "false"

\* C11 as stated: the hook launches the generator only if an interactive
\* terminal is present, CI is not set, the install is not global and
\* XREACT_AUTO_RUN is not 'false'.
C11_LaunchOnlyOnTerminal ==
    hook.launched =>
        StdinTTY /\ ~Truthy(env.CI) /\ ~GlobalInstall /\ ~DisabledByFlag

\* C11 amended: the hook launches only if CI is not set, the install is not
\* global, XREACT_AUTO_RUN is not 'false', and stdin is a terminal or (later
\* revision) npm foreground scripts are on; the later revision asks a
\* terminal for stdout as well as stdin.  With no terminal on stdin and
\* foreground scripts off it never launches.
C11_LaunchOnlyWhenEligible ==
    /\ hook.launched =>
          /\ ~Truthy(env.CI) /\ ~GlobalInstall /\ ~DisabledByFlag
          /\ hook.revision = "tty" => StdinTTY
          /\ hook.revision = "foreground" =>
                InteractiveTTY \/ ForegroundScripts
    /\ (hook.pc = "done" /\ ~StdinTTY /\ ~ForegroundScripts) => ~hook.launched

\* the later revision launches without a terminal, under foreground scripts
C11_Witness ==
    /\ hook.pc = "done" /\ hook.launched /\ hook.revision = "foreground"
    /\ ~StdinTTY /\ ForegroundScripts

\* the usage block or the "Skipping auto-run" block was printed
ManualInstructionsPrinted == hook.usage \/ hook.manual

\* C12 as stated: whenever the hook ends without launching the generator
\* (CI, no terminal, global install or disabled by the flag) it has printed
\* manual-run instructions.
C12_InstructionsWhenNotLaunched ==
    (hook.pc = "done" /\ ~hook.launched /\ ~hook.threw) =>
        ManualInstructionsPrinted

\* C13: the hook never fails the installation: what is thrown inside is
\* logged as a warning, a non-zero (or null) status of the generator is
\* logged as a warning, and the hook's own exit code is 0 in every run.
C13_HookNeverFailsInstall ==
    hook.pc = "done" =>
        /\ hook.exitCode = 0
        /\ hook.threw => hook.warned
        /\ (hook.launched /\ hook.status # 0) => hook.incomplete

\* the generator was launched and failed
C13_Witness ==
    /\ hook.pc = "done" /\ hook.launched /\ hook.status = 1
    /\ hook.incomplete /\ hook.exitCode = 0

-----------------------------------------------------------------------------
(* Properties of the primary command (SpecMain) *)

StageOk(stage) ==
    \E i \in DOMAIN invoked : invoked[i] = [stage |-> stage, threw |-> FALSE]

SomeStageThrew == \E i \in DOMAIN invoked : invoked[i].threw

\* what the Vite stage and the Tailwind stage wrote is still in the project
BaseFilesInPlace ==
    /\ ViteConfigPath(choices.useTypeScript) \in DOMAIN proj.files
    /\ AppFilePath(choices.useTypeScript) \in DOMAIN proj.files
    /\ "dev" \in DOMAIN proj.pkg.scripts

TailwindFilesInPlace ==
    /\ "src/index.css" \in DOMAIN proj.files
    /\ proj.files["src/index.css"] = << "@import \"tailwindcss\";" >>
    /\ proj.files[ViteConfigPath(choices.useTypeScript)]
           = TailwindViteConfigContent

\* C14: when a stage's subprocess exits non-zero the run aborts: the stage
\* that threw is the last one started, no stage is started twice, the
\* process exits with a non-zero code, and what the earlier stages wrote is
\* left in place.
C14_StageFailureAbortsRun ==
    /\ \A i \in DOMAIN invoked : invoked[i].threw => i = Len(invoked)
    /\ \A i, j \in DOMAIN invoked :
          invoked[i].stage = invoked[j].stage => i = j
    /\ SomeStageThrew =>
          /\ pc \in {"failed", "exit"}
          /\ main.exited => main.exitCode # 0
    /\ StageOk("base") => BaseFilesInPlace
    /\ (StageOk("tailwind") /\ ~StageOk("router")) => TailwindFilesInPlace

\* the Router stage failed after the Vite and the Tailwind stage
C14_Witness ==
    /\ invoked = << [stage |-> "base", threw |-> FALSE],
                    [stage |-> "tailwind", threw |-> FALSE],
                    [stage |-> "router", threw |-> TRUE] >>
    /\ main.exited /\ main.exitCode = 1
    /\ BaseFilesInPlace /\ TailwindFilesInPlace

-----------------------------------------------------------------------------
(* Properties of the add-on commands (SpecAddOn) *)

\* the files of the Router stage and of the RTK Query stage, without extension
RouterStems ==
    {"src/navigation/index", "src/navigation/routes", "src/pages/login/Login",
     "src/pages/home/Home", "src/components/layout/MainLayout", "src/App"}

RtkStems ==
    {"src/store/index", "src/store/StoreProvider", "src/api/apiSlice",
     "src/api/user/userApi", "src/api/posts/postsApi", "src/api/index",
     "src/hooks/index", "src/App"}

WithExtension(stems, exts) == { stem \o "." \o e : stem \in stems, e \in exts }

\* the files a step created or changed
Written ==
    { f \in DOMAIN proj'.files :
        f \notin DOMAIN proj.files \/ proj'.files[f] # proj.files[f] }

RanAddOn(stage) ==
    /\ Len(invoked') = Len(invoked) + 1
    /\ invoked'[Len(invoked')] = [stage |-> stage, threw |-> FALSE]

\* C15: the router add-on, run in a directory with tsconfig.json that has no
\* router files yet, writes only .tsx/.ts files; without tsconfig.json only
\* .jsx/.js files; and in both cases it writes each of the same six files.
C15_RouterAddOnExtensions ==
    [][ (RanAddOn("router") /\ "src/navigation" \notin proj.dirs) =>
          LET exts == IF "tsconfig.json" \in DOMAIN proj.files
                      THEN {"tsx", "ts"} ELSE {"jsx", "js"}
          IN  /\ Written \subseteq WithExtension(RouterStems, exts)
              /\ \A stem \in RouterStems :
                    \E e \in exts : (stem \o "." \o e) \in Written
    ]_vars

\* the router add-on has run in a TypeScript project
C15_Witness ==
    /\ invoked = << [stage |-> "router", threw |-> FALSE] >>
    /\ "tsconfig.json" \in DOMAIN proj.files
    /\ "src/navigation/index.tsx" \in DOMAIN proj.files
    /\ "src/pages/login/Login.tsx" \in DOMAIN proj.files

\* directories under src that the two stages create
AddOnDirs ==
    {"src/navigation", "src/pages", "src/pages/login", "src/pages/home",
     "src/components", "src/components/layout", "src/store", "src/api",
     "src/hooks", "src/api/user", "src/api/posts"}

\* C16: one run of an add-on command calls exactly one stage, Router or RTK
\* Query, on the current directory: nothing of the scaffold or of another
\* stage is written (scripts and the other package.json fields, the Vite
\* config, the styles), no directory outside src is created, and the exit
\* code is non-zero if the stage threw.
C16_AddOnRunsOneStage ==
    [][ LET last == invoked'[Len(invoked')]
        IN  /\ Len(invoked') = Len(invoked) + 1
            /\ last.stage \in {"router", "rtk"}
            /\ Written \subseteq
                  WithExtension(RouterStems \cup RtkStems,
                                {"ts", "tsx", "js", "jsx"})
            /\ DOMAIN proj.files \ DOMAIN proj'.files \subseteq {"src/App.css"}
            /\ proj'.dirs \ proj.dirs \subseteq AddOnDirs
            /\ proj'.pkg.scripts = proj.pkg.scripts
            /\ proj'.pkg.other = proj.pkg.other
            /\ last.threw => (main'.exited /\ main'.exitCode # 0)
    ]_vars

\* the one stage of the run threw
C16_Witness ==
    /\ invoked = << [stage |-> "router", threw |-> TRUE] >>
    /\ main.exited /\ main.exitCode = 1

UsesRouter(content) ==
    Contains(content, ImportRouterLine) /\ HasRouterWrapper(content)

\* C17 as stated: after a run of setupRtkQuery that completes, the App file
\* imports and renders StoreProvider, and an App file that used the Router
\* before still uses it.
C17_AppWrappedWithStoreProvider ==
    [][ RanAddOn("rtk") =>
          LET app == AppFilePath(detectTypeScript(proj))
          IN  /\ MentionsStoreProvider(proj'.files[app])
              /\ UsesRouter(proj.files[app]) => UsesRouter(proj'.files[app])
    ]_vars

-----------------------------------------------------------------------------
(* Properties of the App file under the stages (SpecStages) *)

\* C20: the Tailwind stage overwrites the App file unconditionally: after a
\* call of it that returned, the App file is exactly the Tailwind template
\* and has no reference to the Router, whatever it held before; so when
\* Tailwind is called after Router the router wiring of the App file is gone.
C20_TailwindOverwritesApp ==
    (invoked # <<>> /\ LastCall = [stage |-> "tailwind", threw |-> FALSE]) =>
        LET app == proj.files[AppFilePath(lastTS)]
        IN  /\ app = TailwindAppContent(AppFileName(lastTS))
            /\ ~Contains(app, ImportRouterLine)
            /\ ~HasRouterWrapper(app)

\* Tailwind was called after Router
C20_Witness ==
    /\ invoked = << [stage |-> "router", threw |-> FALSE],
                    [stage |-> "tailwind", threw |-> FALSE] >>
    /\ "src/navigation" \in proj.dirs
    /\ ~UsesRouter(proj.files[AppFilePath(lastTS)])

-----------------------------------------------------------------------------
(* Properties of the prompts of main (SpecMain) *)

PromptOrder == << "appName", "useTypeScript", "useTailwind" >>

IsPrefix(s, t) == Len(s) <= Len(t) /\ \A i \in 1..Len(s) : s[i] = t[i]

\* C18: the prompts are answered in the order app name, language, toggle;
\* generateProject is entered only when all of them are answered; and a run
\* in which a prompt or a stage threw exits with a non-zero code.
C18_PromptsThenGenerate ==
    /\ IsPrefix(main.asked, PromptOrder)
    /\ (invoked # <<>> \/ pc \in {"vite", "tailwind", "router", "done"}) =>
          main.asked = PromptOrder
    /\ (main.exited /\ (main.asked # PromptOrder \/ SomeStageThrew)) =>
          main.exitCode # 0

\* the Vite stage threw after the three prompts
C18_Witness ==
    /\ main.asked = PromptOrder
    /\ invoked = << [stage |-> "base", threw |-> TRUE] >>
    /\ main.exited /\ main.exitCode = 1

Rejected(v) == v \notin {"not asked", Accepted}

\* C19: an answer the validator rejects neither ends the run nor moves it
\* on: the app-name prompt is asked again; and generateProject is never
\* entered with a name that is blank, has a character outside a-z 0-9 -, or
\* names an existing entry.
C19_RejectedNameIsReasked ==
    /\ [][ (Rejected(verdict') /\ <<input', entryKind', verdict'>> # nameVars) =>
             (pc' = "askName" /\ main' = main /\ invoked' = <<>>) ]_vars
    /\ []( (main.asked # <<>> \/ invoked # <<>>) =>
             (~IsBlank(input) /\ ~HasForeignCharacter(input)
                /\ entryKind = "absent") )

\* a name was rejected and the prompt is waiting for another answer
C19_Witness ==
    /\ pc = "askName" /\ Rejected(verdict) /\ input # <<>>
    /\ main.asked = <<>> /\ ~main.exited

-----------------------------------------------------------------------------
(* Properties of the single stages (SpecStages) *)

InstallStages == {"tailwind", "router", "rtk", "prettier", "eslint", "husky"}

\* a step that is a call of the stage
Called(stage) ==
    /\ Len(invoked') = Len(invoked) + 1
    /\ invoked'[Len(invoked')].stage = stage

\* C21: in every setup stage the package-manager install is the first
\* command, and when it fails the stage throws with nothing of the project
\* written or modified and no further command run.
C21_InstallFirst ==
    [][ \A stage \in InstallStages :
          Called(stage) =>
            /\ cmds' # <<>>
            /\ cmds'[1].cmd = "npm install"
            /\ ~cmds'[1].ok =>
                  /\ proj' = proj
                  /\ Len(cmds') = 1
                  /\ invoked'[Len(invoked')].threw
    ]_vars

\* the install of the Prettier stage failed
C21_Witness ==
    /\ invoked # <<>>
    /\ LastCall = [stage |-> "prettier", threw |-> TRUE]
    /\ cmds = << Command("npm install", FALSE) >>
    /\ ".prettierrc" \notin DOMAIN proj.files

\* C22: the RTK Query stage writes the hooks file src/hooks/index.ts if and
\* only if useTypeScript is true; for a JavaScript project it writes no
\* hooks file, and it creates the directory src/hooks in both cases.
C22_HooksFileIffTypeScript ==
    (invoked # <<>> /\ LastCall.stage = "rtk" /\ cmds[1].ok) =>
        /\ "src/hooks" \in proj.dirs
        /\ "src/hooks/index.ts" \in DOMAIN proj.files <=> lastTS
        /\ "src/hooks/index.js" \notin DOMAIN proj.files

\* the stage has run on a JavaScript project
C22_Witness ==
    /\ invoked # <<>> /\ LastCall = [stage |-> "rtk", threw |-> FALSE]
    /\ ~lastTS
    /\ "src/hooks" \in proj.dirs
    /\ "src/store/index.js" \in DOMAIN proj.files

Ran(issued, cmd) == \E i \in DOMAIN issued : issued[i].cmd = cmd

RanOk(issued, cmd) == \E i \in DOMAIN issued : issued[i] = Command(cmd, TRUE)

\* C23: the Husky stage, once its install succeeded, runs git init if and
\* only if the project is not inside a git repository; husky install comes
\* after the repository check, and runs unless a needed git init failed.
C23_GitInitIffNoRepository ==
    [][ (Called("husky") /\ cmds'[1].ok) =>
          /\ Ran(cmds', "git init") <=> ~proj.git
          /\ \A i \in DOMAIN cmds' :
                cmds'[i].cmd = "npx husky install" =>
                  \E j \in 1..(i - 1) : cmds'[j].cmd = "git rev-parse --git-dir"
          /\ Ran(cmds', "npx husky install")
                <=> (proj.git \/ RanOk(cmds', "git init"))
          /\ proj'.git = (proj.git \/ RanOk(cmds', "git init"))
    ]_vars

\* the stage initialised a repository and went on to husky install
C23_Witness ==
    /\ invoked = << [stage |-> "husky", threw |-> FALSE] >>
    /\ RanOk(cmds, "git init") /\ RanOk(cmds, "npx husky install")
    /\ proj.git /\ proj.husky

FatalHuskyCommands == {"npm install", "git init", "npx husky install"}

HuskyFilesWritten ==
    /\ {".husky/pre-commit", ".husky/commit-msg", "commitlint.config.js",
         ".gitmessage"} \subseteq DOMAIN proj.files
    /\ \A k \in DOMAIN HuskyScripts(lastTS) :
          k \in DOMAIN proj.pkg.scripts
            /\ proj.pkg.scripts[k] = HuskyScripts(lastTS)[k]
    /\ proj.pkg.lintStaged = HuskyLintStaged(lastTS)

\* C24: in the Husky stage a failing chmod of either hook script and a
\* failing git config commit.template are not fatal: the stage throws
\* exactly when its install, git init or husky install failed, and when it
\* does not throw both hook files, commitlint.config.js, .gitmessage and the
\* package.json changes are written.
C24_HuskyNonFatalFailures ==
    (invoked # <<>> /\ LastCall.stage = "husky") =>
        /\ LastCall.threw <=>
              \E i \in DOMAIN cmds :
                  cmds[i].cmd \in FatalHuskyCommands /\ ~cmds[i].ok
        /\ ~LastCall.threw => HuskyFilesWritten

\* both chmod calls and git config failed, and the stage completed
C24_Witness ==
    /\ invoked # <<>> /\ LastCall = [stage |-> "husky", threw |-> FALSE]
    /\ \E i \in DOMAIN cmds : cmds[i] = Command("chmod +x pre-commit", FALSE)
    /\ \E i \in DOMAIN cmds : cmds[i] = Command("chmod +x commit-msg", FALSE)
    /\ \E i \in DOMAIN cmds :
          cmds[i] = Command("git config commit.template", FALSE)
    /\ HuskyFilesWritten /\ proj.execBits = {} /\ ~proj.commitTemplate

-----------------------------------------------------------------------------
(* Properties of the RTK Query stage in the add-on runs (SpecAddOn) *)

\* C25: setupRtkQuery is idempotent on the App file: a run of it that
\* directly follows a completed run of it leaves the content of the App
\* file as it was.
C25_RtkQueryIdempotentOnApp ==
    [][ (RanAddOn("rtk") /\ invoked # <<>>
           /\ LastCall = [stage |-> "rtk", threw |-> FALSE]) =>
          LET app == AppFilePath(detectTypeScript(proj))
          IN  proj'.files[app] = proj.files[app]
    ]_vars

\* two runs on a project whose App file renders the Router
C25_Witness ==
    /\ invoked = << [stage |-> "rtk", threw |-> FALSE],
                    [stage |-> "rtk", threw |-> FALSE] >>
    /\ proj.files[AppFilePath(lastTS)]
         = << ImportRouterLine, ImportStoreProviderLine, "function App() {",
              WrappedRouterLine, "export default App;" >>

-----------------------------------------------------------------------------
(* Properties of package.json and the config files under stage sequences   *)
(* (SpecStages, Spec)                                                      *)

\* C26: no stage call removes a script key: the script keys of package.json
\* before a call are all script keys after it.
C26_ScriptKeysNeverShrink ==
    [][ DOMAIN proj.pkg.scripts \subseteq DOMAIN proj'.pkg.scripts ]_vars

\* ESLint, then the base scripts, on a project with a script of the user
C26_Witness ==
    /\ invoked = << [stage |-> "eslint", threw |-> FALSE],
                    [stage |-> "base", threw |-> FALSE] >>
    /\ "test" \in DOMAIN proj.pkg.scripts
    /\ DOMAIN EslintScripts \subseteq DOMAIN proj.pkg.scripts
    /\ DOMAIN ViteScripts \subseteq DOMAIN proj.pkg.scripts

ViteConfig == proj.files[ViteConfigPath(config.useTypeScript)]

ServerSettingsLine == "server: { port: 3000, open: true }"
BuildSettingsLine  == "build: { outDir: 'dist', sourcemap: true }"

\* C27: once the Tailwind stage has run after the base scaffold, the Vite
\* config is the Tailwind template: it has the Tailwind plugin and neither
\* the server nor the build settings of configureVite; in a completed run
\* without Tailwind the config is exactly the one configureVite wrote.
C27_TailwindReplacesViteConfig ==
    /\ StageOk("tailwind") =>
          /\ ViteConfig = TailwindViteConfigContent
          /\ Contains(ViteConfig, TailwindPluginLine)
          /\ ~Contains(ViteConfig, ServerSettingsLine)
          /\ ~Contains(ViteConfig, BuildSettingsLine)
    /\ (pc = "done" /\ ~config.useTailwind) =>
          /\ ViteConfig = BasicViteConfigContent
          /\ Contains(ViteConfig, ServerSettingsLine)
          /\ Contains(ViteConfig, BuildSettingsLine)

\* a completed run with Tailwind
C27_Witness ==
    /\ pc = "done" /\ config.useTailwind
    /\ StageOk("base") /\ StageOk("tailwind")
    /\ Contains(ViteConfig, TailwindPluginLine)
    /\ ~Contains(ViteConfig, ServerSettingsLine)

\* C28: once a call of the Tailwind stage or of the Router stage has
\* returned, src/App.css is not in the project, whether or not it was there
\* before the call, and no stage called afterwards creates it again.
C28_AppCssAbsent ==
    (\E i \in DOMAIN invoked :
        invoked[i].stage \in {"tailwind", "router"} /\ ~invoked[i].threw)
      => "src/App.css" \notin DOMAIN proj.files

\* the Router stage removed the file and ESLint ran afterwards
C28_Witness ==
    /\ invoked = << [stage |-> "router", threw |-> FALSE],
                    [stage |-> "eslint", threw |-> FALSE] >>
    /\ "src/App.css" \notin DOMAIN proj.files
    /\ ".eslintrc.json" \in DOMAIN proj.files

RtkFilesWritten(files, useTypeScript) ==
    LET ext == IF useTypeScript THEN "ts" ELSE "js"
    IN  /\ { "src/store/index." \o ext, "src/store/StoreProvider." \o ext \o "x",
             "src/api/apiSlice." \o ext, "src/api/user/userApi." \o ext,
             "src/api/posts/postsApi." \o ext, "src/api/index." \o ext }
              \subseteq DOMAIN files
        /\ useTypeScript => "src/hooks/index.ts" \in DOMAIN files

\* C29: when the App file of the detected language does not exist and the
\* install succeeded, setupRtkQuery throws, and it does so with the
\* dependencies installed and the store, api and (TypeScript) hooks files
\* written; they are in the project when the add-on command ends, and the
\* command exits with a non-zero code.
C29_RtkFailsAfterWriting ==
    [][ LET useTypeScript == detectTypeScript(proj)
        IN  (Called("rtk") /\ cmds'[1].ok
               /\ AppFilePath(useTypeScript) \notin DOMAIN proj.files) =>
              /\ invoked'[Len(invoked')].threw
              /\ {"@reduxjs/toolkit", "react-redux"} \subseteq proj'.pkg.deps
              /\ RtkFilesWritten(proj'.files, useTypeScript)
              /\ {"src/store", "src/api", "src/hooks"} \subseteq proj'.dirs
              /\ AppFilePath(useTypeScript) \notin DOMAIN proj'.files
              /\ main'.exited /\ main'.exitCode # 0
    ]_vars

\* the add-on failed in a TypeScript project without src/App.tsx
C29_Witness ==
    /\ invoked = << [stage |-> "rtk", threw |-> TRUE] >>
    /\ cmds = << Command("npm install", TRUE) >>
    /\ lastTS /\ "src/App.tsx" \notin DOMAIN proj.files
    /\ RtkFilesWritten(proj.files, TRUE)
    /\ main.exited /\ main.exitCode = 1
=============================================================================
